---- MODULE Spec2Model ----
(***************************************************************************)
(* Wythoff construction of uniform polytopes (polytopes/models.py).        *)
(*                                                                         *)
(* Words, relations and orbits are sequences; vertex (coset) ids are the   *)
(* 0-based integers of the source, so row c of a table is element c + 1.   *)
(***************************************************************************)
EXTENDS Integers, Sequences, FiniteSets, TLC

(***************************************************************************)
(* Generic helpers                                                         *)
(***************************************************************************)
Min(a, b) == IF a <= b THEN a ELSE b
Max(a, b) == IF a <= b THEN b ELSE a

\* Python's  w * k  on tuples: the word w repeated k times
RECURSIVE Repeat(_, _)
Repeat(w, k) == IF k <= 0 THEN <<>> ELSE w \o Repeat(w, k - 1)

\* concatenation of a sequence of sequences
RECURSIVE Flatten(_)
Flatten(ss) == IF ss = <<>> THEN <<>> ELSE Head(ss) \o Flatten(Tail(ss))

\* sum of the lengths of the elements of a sequence of sequences
RECURSIVE SumLen(_)
SumLen(ss) == IF ss = <<>> THEN 0 ELSE Len(Head(ss)) + SumLen(Tail(ss))

\* Python's None, [] and () are all written as the empty sequence: a coset
\* table always has the row of coset 0 and vwords the empty word of coset 0,
\* so neither is ever empty once assigned.
None == <<>>

(***************************************************************************)
(* Coset Table (Todd-Coxeter, todd_coxeter.py; modelled from section 4.1)  *)
(*                                                                         *)
(* A table t is a record                                                   *)
(*    A  : the action table, A[c+1][g+1] a coset id or Undef               *)
(*    p  : the equivalence table, p[c+1] = c iff c is alive                *)
(*    Q  : the FIFO queue of dead rows still to be processed               *)
(*    ok : FALSE once the table exceeded its size bound                    *)
(***************************************************************************)
Undef == -1

\* the inverse letter: a Coxeter generator is an involution, a rotation
\* presentation uses the ids 0:r 1:r^-1 2:s 3:s^-1 ...
inv(x, coxeter) == IF coxeter THEN x ELSE IF x % 2 = 0 THEN x + 1 ELSE x - 1

EmptyRow(ng) == [x \in 1..ng |-> Undef]

NewTable(ng) == [A |-> <<EmptyRow(ng)>>, p |-> <<0>>, Q |-> <<>>, ok |-> TRUE]

Entry(t, c, g) == t.A[c + 1][g + 1]

alive(t, c) == t.p[c + 1] = c

RECURSIVE rep(_, _)
rep(t, c) == IF t.p[c + 1] = c THEN c ELSE rep(t, t.p[c + 1])

\* create a fresh coset c' with A[c][g] = c' and A[c'][g^-1] = c
define(t, c, g, coxeter, max) ==
    LET n == Len(t.A)
        ng == Len(t.A[1])
    IN  IF n >= max
        THEN [t EXCEPT !.ok = FALSE]
        ELSE [t EXCEPT !.A = Append([@ EXCEPT ![c + 1][g + 1] = n],
                                    [EmptyRow(ng) EXCEPT ![inv(g, coxeter) + 1] = c]),
                       !.p = Append(@, n)]

\* declare c and d equivalent: the larger id dies and is queued
merge(t, c, d) ==
    LET c1 == rep(t, c)
        d1 == rep(t, d)
    IN  IF c1 = d1 THEN t
        ELSE [t EXCEPT !.p[Max(c1, d1) + 1] = Min(c1, d1),
                       !.Q = Append(@, Max(c1, d1))]

\* move the entry (e, g) of the dead row e to the live row that replaces it
MoveEntry(t, e, g, coxeter) ==
    LET f == Entry(t, e, g)
        gi == inv(g, coxeter)
    IN  IF f = Undef THEN t
        ELSE LET t1 == [t EXCEPT !.A[f + 1][gi + 1] = Undef]
                 mu == rep(t1, e)
                 nu == rep(t1, f)
             IN  IF Entry(t1, mu, g) # Undef
                     THEN merge(t1, nu, Entry(t1, mu, g))
                 ELSE IF Entry(t1, nu, gi) # Undef
                     THEN merge(t1, mu, Entry(t1, nu, gi))
                 ELSE [t1 EXCEPT !.A[mu + 1][g + 1] = nu,
                                 !.A[nu + 1][gi + 1] = mu]

RECURSIVE ProcessRow(_, _, _, _)
ProcessRow(t, e, g, coxeter) ==
    IF g >= Len(t.A[1]) THEN t
    ELSE ProcessRow(MoveEntry(t, e, g, coxeter), e, g + 1, coxeter)

RECURSIVE coincidence_loop(_, _)
coincidence_loop(t, coxeter) ==
    IF t.Q = <<>> THEN t
    ELSE coincidence_loop(
             ProcessRow([t EXCEPT !.Q = Tail(@)], Head(t.Q), 0, coxeter), coxeter)

coincidence(t, c, d, coxeter) == coincidence_loop(merge(t, c, d), coxeter)

\* forward scan: <<coset reached, index of the first letter not consumed>>
RECURSIVE ScanForward(_, _, _, _)
ScanForward(t, f, w, i) ==
    IF i <= Len(w) /\ Entry(t, f, w[i]) # Undef
    THEN ScanForward(t, Entry(t, f, w[i]), w, i + 1)
    ELSE <<f, i>>

\* backward scan down to letter i: <<coset reached, index of the last letter
\* not consumed>>
RECURSIVE ScanBackward(_, _, _, _, _, _)
ScanBackward(t, b, w, i, j, coxeter) ==
    IF j >= i /\ Entry(t, b, inv(w[j], coxeter)) # Undef
    THEN ScanBackward(t, Entry(t, b, inv(w[j], coxeter)), w, i, j - 1, coxeter)
    ELSE <<b, j>>

\* trace the word w from coset c back to coset c.  With fill, a gap of more
\* than one step is bridged by new cosets; without, it is left alone.
RECURSIVE scan_relation(_, _, _, _, _, _)
scan_relation(t, c, w, fill, coxeter, max) ==
    LET fw == ScanForward(t, c, w, 1)
        f == fw[1]
        i == fw[2]
        bw == ScanBackward(t, c, w, i, Len(w), coxeter)
        b == bw[1]
        j == bw[2]
    IN  IF ~t.ok THEN t
        ELSE IF i > Len(w)
            THEN (IF f = c THEN t ELSE coincidence(t, f, c, coxeter))
        ELSE IF j < i
            THEN coincidence(t, f, b, coxeter)
        ELSE IF j = i
            THEN [t EXCEPT !.A[f + 1][w[i] + 1] = b,
                           !.A[b + 1][inv(w[i], coxeter) + 1] = f]
        ELSE IF fill
            THEN scan_relation(define(t, f, w[i], coxeter, max),
                               c, w, fill, coxeter, max)
        ELSE t

\* scan every word of ws from coset c
RECURSIVE ScanWords(_, _, _, _, _, _, _)
ScanWords(t, c, ws, k, fill, coxeter, max) ==
    IF k > Len(ws) \/ ~t.ok \/ ~alive(t, c) THEN t
    ELSE ScanWords(scan_relation(t, c, ws[k], fill, coxeter, max),
                   c, ws, k + 1, fill, coxeter, max)

\* the undefined entries <<c, g>> of live rows
Holes(t) ==
    {cg \in (0..(Len(t.A) - 1)) \X (0..(Len(t.A[1]) - 1)) :
        alive(t, cg[1]) /\ Entry(t, cg[1], cg[2]) = Undef}

\* the first hole: smallest live coset, then smallest generator
FirstHole(t) ==
    CHOOSE cg \in Holes(t) :
        \A o \in Holes(t) : cg[1] < o[1] \/ (cg[1] = o[1] /\ cg[2] <= o[2])

\* HLT with scan-all as a loop over the control state
\*    t       : the table
\*    c, k    : the pass is about to scan relation k from coset c
\*    changed : the pass has changed the table
\*    done    : every live row is complete, or the table diverged
hlt_start(t) == [t |-> t, c |-> 0, k |-> 1, changed |-> FALSE, done |-> FALSE]

\* One iteration: scan one relation from one coset (draining Q).  At the end
\* of a pass that changed something the pass is repeated; at the end of one
\* that changed nothing the first hole is defined, or the enumeration is over.
hlt_step(s, rels, coxeter, max) ==
    LET t == s.t
    IN  IF ~t.ok THEN [s EXCEPT !.done = TRUE]
        ELSE IF s.c >= Len(t.A)
            THEN IF s.changed
                     THEN [s EXCEPT !.c = 0, !.k = 1, !.changed = FALSE]
                 ELSE IF Holes(t) = {}
                     THEN [s EXCEPT !.done = TRUE]
                 ELSE LET h == FirstHole(t)
                      IN  hlt_start(define(t, h[1], h[2], coxeter, max))
        ELSE IF s.k > Len(rels) \/ ~alive(t, s.c)
            THEN [s EXCEPT !.c = @ + 1, !.k = 1]
        ELSE LET t1 == scan_relation(t, s.c, rels[s.k], FALSE, coxeter, max)
             IN  [s EXCEPT !.t = t1, !.k = @ + 1, !.changed = @ \/ t1 # t]

\* up to 8^j iterations, stopping at the first state that is done
RECURSIVE hlt_run(_, _, _, _, _)
hlt_run(s, j, rels, coxeter, max) ==
    IF s.done THEN s
    ELSE IF j = 0 THEN hlt_step(s, rels, coxeter, max)
    ELSE LET s1 == hlt_run(s, j - 1, rels, coxeter, max)
             s2 == hlt_run(s1, j - 1, rels, coxeter, max)
             s3 == hlt_run(s2, j - 1, rels, coxeter, max)
             s4 == hlt_run(s3, j - 1, rels, coxeter, max)
             s5 == hlt_run(s4, j - 1, rels, coxeter, max)
             s6 == hlt_run(s5, j - 1, rels, coxeter, max)
             s7 == hlt_run(s6, j - 1, rels, coxeter, max)
         IN  IF s1.done THEN s1 ELSE IF s2.done THEN s2
             ELSE IF s3.done THEN s3 ELSE IF s4.done THEN s4
             ELSE IF s5.done THEN s5 ELSE IF s6.done THEN s6
             ELSE IF s7.done THEN s7
             ELSE hlt_run(s7, j - 1, rels, coxeter, max)

\* iterate until done (a hole defined adds a row, so the size bound ends the
\* loop)
RECURSIVE hlt_loop(_, _, _, _)
hlt_loop(s, rels, coxeter, max) ==
    IF s.done THEN s
    ELSE hlt_loop(hlt_run(s, 5, rels, coxeter, max), rels, coxeter, max)

hlt(t, rels, coxeter, max) == hlt_loop(hlt_start(t), rels, coxeter, max).t


\* the ids of the live cosets, ascending
LiveIds(t) == SelectSeq([k \in 1..Len(t.A) |-> k - 1], LAMBDA c : alive(t, c))

\* renumber the live cosets 0..N-1 in ascending order and drop the dead rows
compress(t) ==
    LET live == LiveIds(t)
        newid == [c \in 0..(Len(t.A) - 1) |->
                    IF alive(t, c)
                    THEN Cardinality({d \in 0..c : alive(t, d)}) - 1
                    ELSE Undef]
    IN  [k \in 1..Len(live) |->
            [x \in 1..Len(t.A[1]) |->
                IF t.A[live[k] + 1][x] = Undef THEN Undef
                ELSE newid[t.A[live[k] + 1][x]]]]

\* One level of the breadth-first search from coset 0.  frontier lists the
\* cosets of the level in the order they were reached; step k of the level
\* follows generator (k - 1) % ng from coset frontier[(k - 1) \div ng + 1],
\* and the first step that reaches a coset without a word gives it its word.
RECURSIVE WordsBfs(_, _, _)
WordsBfs(table, words, frontier) ==
    LET ng == Len(table[1])
        from(k) == frontier[((k - 1) \div ng) + 1]
        gen(k) == (k - 1) % ng
        to(k) == table[from(k) + 1][gen(k) + 1]
        steps == [k \in 1..(Len(frontier) * ng) |-> k]
        first(k) == /\ to(k) # Undef
                    /\ words[to(k) + 1] = <<Undef>>
                    /\ \A o \in 1..(k - 1) : to(o) # to(k)
        found == SelectSeq(steps, first)
    IN  IF found = <<>> THEN words
        ELSE WordsBfs(table,
                      [d \in 1..Len(words) |->
                          IF \E n \in 1..Len(found) : to(found[n]) = d - 1
                          THEN LET k == found[CHOOSE n \in 1..Len(found) :
                                                  to(found[n]) = d - 1]
                               IN  Append(words[from(k) + 1], gen(k))
                          ELSE words[d]],
                      [n \in 1..Len(found) |-> to(found[n])])

\* a shortest representative word for every coset, in ascending id order
get_words(table) ==
    WordsBfs(table, [k \in 1..Len(table) |-> IF k = 1 THEN <<>> ELSE <<Undef>>], <<0>>)

\* CosetTable(gens, rels, subgens, coxeter).run() followed by get_words():
\*   ok     FALSE when the enumeration diverged
\*   table  the frozen table (the partial table when it diverged)
\*   words  the representative words (None when it diverged)
CosetTable(gens, rels, subgens, coxeter, max) ==
    LET frozen(tb) == [ok |-> TRUE, table |-> tb, words |-> get_words(tb)]
        result(t1) == IF t1.ok THEN frozen(compress(t1))
                      ELSE [ok |-> FALSE, table |-> t1.A, words |-> None]
    IN  result(hlt(ScanWords(NewTable(Len(gens)), 0, subgens, 1, TRUE, coxeter, max),
                   rels, coxeter, max))

(***************************************************************************)
(* Collaborators of helpers.py, by their contract (section 6)             *)
(***************************************************************************)
\* the number n of mirrors of a diagram of length n(n-1)/2
Dim(coxeter_diagram) ==
    CHOOSE n \in 1..(Len(coxeter_diagram) + 1) : n * (n - 1) = 2 * Len(coxeter_diagram)

\* position in the diagram (upper triangle, row-major) of the pair i < j
TriangleIndex(n, i, j) == i * n - (i * (i + 1)) \div 2 + (j - i - 1) + 1

\* the Coxeter matrix: symmetric, diagonal 1; row i is element i + 1
get_coxeter_matrix(coxeter_diagram) ==
    LET n == Dim(coxeter_diagram)
    IN  [a \in 1..n |-> [b \in 1..n |->
            IF a = b THEN 1
            ELSE coxeter_diagram[TriangleIndex(n, Min(a, b) - 1, Max(a, b) - 1)]]]

\* A vector is kept as the word of reflections applied to the initial
\* point, in order: get_init_point gives the empty word and multiplying by
\* reflections[w] appends w.
init_v == <<>>

reflect(vector, w) == Append(vector, w)

(***************************************************************************)
(* BasePolytope                                                            *)
(***************************************************************************)
\* itertools.combinations(gens, 2): the pairs in lexicographic order
combinations2(gens) ==
    LET n == Len(gens)
        pairs == {ab \in (1..n) \X (1..n) : ab[1] < ab[2]}
        rank(ab) == Cardinality({o \in pairs :
                        o[1] < ab[1] \/ (o[1] = ab[1] /\ o[2] <= ab[2])})
    IN  [k \in 1..Cardinality(pairs) |->
            LET ab == CHOOSE ab \in pairs : rank(ab) = k
            IN  <<gens[ab[1]], gens[ab[2]]>>]

\* the fields BasePolytope.__init__ sets
BasePolytope_init(coxeter_diagram, init_dist, extra_relations) ==
    LET M == get_coxeter_matrix(coxeter_diagram)
        gens == [k \in 1..Len(M) |-> k - 1]
        pairs == combinations2(gens)
    IN  [coxeter_matrix  |-> M,
         active          |-> [k \in 1..Len(init_dist) |-> init_dist[k] # 0],
         symmetry_gens   |-> gens,
         symmetry_rels   |-> [k \in 1..Len(pairs) |->
                                 Repeat(pairs[k], M[pairs[k][1] + 1][pairs[k][2] + 1])]
                             \o extra_relations,
         rotations       |-> <<>>,
         vtable          |-> None,
         vwords          |-> None,
         num_vertices    |-> 0,
         num_edges       |-> 0,
         num_faces       |-> 0,
         vertices_coords |-> <<>>,
         edge_indices    |-> <<>>,
         face_indices    |-> <<>>]

\* BasePolytope.transform: every letter is a reflection
RECURSIVE transform(_, _)
transform(vector, word) ==
    IF word = <<>> THEN vector
    ELSE transform(reflect(vector, Head(word)), Tail(word))

\* BasePolytope.move: follow the word through the vertex table
RECURSIVE move(_, _, _)
move(vtable, vertex, word) ==
    IF word = <<>> THEN vertex
    ELSE move(vtable, vtable[vertex + 1][Head(word) + 1], Tail(word))

\* a variant that finds no stabilizing mirror
get_orthogonal_stabilizing_mirrors_none(obj, subgens) == <<>>

\* the inactive generators that commute with every generator of subgens
get_orthogonal_stabilizing_mirrors(obj, subgens) ==
    LET good(s) == /\ \A k \in 1..Len(subgens) :
                        obj.coxeter_matrix[subgens[k] + 1][s + 1] = 2
                   /\ ~obj.active[s + 1]
        kept == SelectSeq(obj.symmetry_gens, good)
    IN  [k \in 1..Len(kept) |-> <<kept[k]>>]

\* CosetTable(gens, rels, subgens, coxeter).run(); get_words()
get_coset_representatives(obj, subgens, coxeter, max) ==
    CosetTable(obj.symmetry_gens, obj.symmetry_rels, subgens, coxeter, max)

\* a variant that numbers the vertices from 1
get_orbit_one_based(vtable, coset_reps, base) ==
    [k \in 1..Len(coset_reps) |->
        [v \in 1..Len(base) |-> move(vtable, base[v], coset_reps[k]) + 1]]

\* apply every word of coset_reps to the base edge / face
get_orbit(vtable, coset_reps, base) ==
    [k \in 1..Len(coset_reps) |->
        [v \in 1..Len(base) |-> move(vtable, base[v], coset_reps[k])]]

\* A method returns the object as the call leaves it and the exception it
\* raised, "none" when it returned.
Return(obj) == [obj |-> obj, raised |-> "none"]
Raise(obj, exc) == [obj |-> obj, raised |-> exc]

\* a variant whose vertex stabilizer is generated by the active mirrors
get_vertices_active(obj, max) ==
    LET chosen == SelectSeq([k \in 1..Len(obj.active) |-> k - 1],
                            LAMBDA i : obj.active[i + 1])
        vgens == [k \in 1..Len(chosen) |-> <<chosen[k]>>]
        store(ct) ==
            IF ~ct.ok
            THEN Raise([obj EXCEPT !.vtable = ct.table], "Diverged")
            ELSE Return([obj EXCEPT
                     !.vtable = ct.table,
                     !.vwords = ct.words,
                     !.num_vertices = Len(ct.words),
                     !.vertices_coords =
                         [k \in 1..Len(ct.words) |-> transform(init_v, ct.words[k])]])
    IN  store(CosetTable(obj.symmetry_gens, obj.symmetry_rels, vgens, TRUE, max))

\* BasePolytope.get_vertices.  self.vtable is assigned before run(), so a
\* diverged enumeration leaves the unfinished table in the field.
get_vertices(obj, max) ==
    LET inactive == SelectSeq([k \in 1..Len(obj.active) |-> k - 1],
                              LAMBDA i : ~obj.active[i + 1])
        vgens == [k \in 1..Len(inactive) |-> <<inactive[k]>>]
        store(ct) ==
            IF ~ct.ok
            THEN Raise([obj EXCEPT !.vtable = ct.table], "Diverged")
            ELSE Return([obj EXCEPT
                     !.vtable = ct.table,
                     !.vwords = ct.words,
                     !.num_vertices = Len(ct.words),
                     !.vertices_coords =
                         [k \in 1..Len(ct.words) |-> transform(init_v, ct.words[k])]])
    IN  store(CosetTable(obj.symmetry_gens, obj.symmetry_rels, vgens, TRUE, max))

\* self.edge_indices.append(orbit); self.num_edges += len(orbit)
append_edges(obj, orbit) ==
    [obj EXCEPT !.edge_indices = Append(@, orbit), !.num_edges = @ + Len(orbit)]

\* self.face_indices.append(orbit); self.num_faces += len(orbit)
append_faces(obj, orbit) ==
    [obj EXCEPT !.face_indices = Append(@, orbit), !.num_faces = @ + Len(orbit)]

\* the body of the loop of get_edges for the mirror i
edges_of_type(obj, i, max) ==
    LET e0 == <<0, move(obj.vtable, 0, <<i>>)>>
        egens == <<<<i>>>> \o get_orthogonal_stabilizing_mirrors(obj, <<i>>)
        store(coset_reps) ==
            IF ~coset_reps.ok
            THEN Raise(obj, "Diverged")
            ELSE Return(append_edges(obj, get_orbit(obj.vtable, coset_reps.words, e0)))
    IN  store(get_coset_representatives(obj, egens, TRUE, max))

\* BasePolytope.get_edges: for i, active in enumerate(self.active), from k
RECURSIVE get_edges_from(_, _, _)
get_edges_from(obj, k, max) ==
    IF k > Len(obj.active) THEN Return(obj)
    ELSE IF ~obj.active[k] THEN get_edges_from(obj, k + 1, max)
    ELSE LET go(r) == IF r.raised # "none" THEN r
                      ELSE get_edges_from(r.obj, k + 1, max)
         IN  go(edges_of_type(obj, k - 1, max))

\* a variant that empties the list of edges before it fills it
get_edges_reset(obj, max) ==
    get_edges_from([obj EXCEPT !.edge_indices = <<>>, !.num_edges = 0], 1, max)

get_edges(obj, max) == get_edges_from(obj, 1, max)

\* a variant that takes a face from a pair of commuting mirrors too
base_face_digon(obj, i, j) ==
    LET m == obj.coxeter_matrix[i + 1][j + 1]
    IN  IF obj.active[i + 1] /\ obj.active[j + 1]
        THEN Flatten([k \in 1..m |->
                 <<move(obj.vtable, 0, Repeat(<<i, j>>, k - 1)),
                   move(obj.vtable, 0, <<j>> \o Repeat(<<i, j>>, k - 1))>>])
        ELSE IF obj.active[i + 1] \/ obj.active[j + 1]
        THEN [k \in 1..m |-> move(obj.vtable, 0, Repeat(<<i, j>>, k - 1))]
        ELSE <<>>

\* the base face of the pair (i, j), <<>> when the pair generates no face
base_face(obj, i, j) ==
    LET m == obj.coxeter_matrix[i + 1][j + 1]
    IN  IF obj.active[i + 1] /\ obj.active[j + 1]
        THEN Flatten([k \in 1..m |->
                 <<move(obj.vtable, 0, Repeat(<<i, j>>, k - 1)),
                   move(obj.vtable, 0, <<j>> \o Repeat(<<i, j>>, k - 1))>>])
        ELSE IF (obj.active[i + 1] \/ obj.active[j + 1]) /\ m > 2
        THEN [k \in 1..m |-> move(obj.vtable, 0, Repeat(<<i, j>>, k - 1))]
        ELSE <<>>

\* a variant whose face stabilizer is generated by (i,) and (j,) alone
faces_of_type_pair_only(obj, i, j, f0, max) ==
    LET store(coset_reps) ==
            IF ~coset_reps.ok
            THEN Raise(obj, "Diverged")
            ELSE Return(append_faces(obj, get_orbit(obj.vtable, coset_reps.words, f0)))
    IN  store(get_coset_representatives(obj, <<<<i>>, <<j>>>>, TRUE, max))

\* the part of the loop body of get_faces after the base face is known
faces_of_type(obj, i, j, f0, max) ==
    LET fgens == <<<<i>>, <<j>>>> \o get_orthogonal_stabilizing_mirrors(obj, <<i, j>>)
        store(coset_reps) ==
            IF ~coset_reps.ok
            THEN Raise(obj, "Diverged")
            ELSE Return(append_faces(obj, get_orbit(obj.vtable, coset_reps.words, f0)))
    IN  store(get_coset_representatives(obj, fgens, TRUE, max))

\* BasePolytope.get_faces: for i, j in combinations(gens, 2), from pair k
RECURSIVE get_faces_from(_, _, _, _)
get_faces_from(obj, pairs, k, max) ==
    IF k > Len(pairs) THEN Return(obj)
    ELSE LET i == pairs[k][1]
             j == pairs[k][2]
             go(r) == IF r.raised # "none" THEN r
                      ELSE get_faces_from(r.obj, pairs, k + 1, max)
             from_base(f0) == IF f0 = <<>> THEN get_faces_from(obj, pairs, k + 1, max)
                         ELSE go(faces_of_type(obj, i, j, f0, max))
         IN  from_base(base_face(obj, i, j))

get_faces(obj, max) == get_faces_from(obj, combinations2(obj.symmetry_gens), 1, max)

(***************************************************************************)
(* Snub                                                                    *)
(***************************************************************************)
\* the dict of Snub.__init__ from a pair of reflection letters to rotation
\* letters (0:r 1:r^-1 2:s 3:s^-1); <<Undef>> stands for a KeyError
snub_pair(x, y) ==
    CASE x = 0 /\ y = 1 -> <<0>>
      [] x = 0 /\ y = 2 -> <<0, 2>>
      [] x = 1 /\ y = 0 -> <<1>>
      [] x = 1 /\ y = 2 -> <<2>>
      [] x = 2 /\ y = 0 -> <<2, 0>>
      [] x = 2 /\ y = 1 -> <<3>>
      [] OTHER -> <<Undef>>

\* an odd-length relation is doubled
doubled(extra_rel) == IF Len(extra_rel) % 2 = 1 THEN extra_rel \o extra_rel ELSE extra_rel

\* zip(extra_rel[:-1:2], extra_rel[1::2]) of the doubled relation
snub_pairs(extra_rel) ==
    LET w == doubled(extra_rel)
    IN  [k \in 1..(Len(w) \div 2) |-> <<w[2 * k - 1], w[2 * k]>>]

\* the relation in rotation letters
snub_rel(extra_rel) ==
    LET ps == snub_pairs(extra_rel)
    IN  Flatten([k \in 1..Len(ps) |-> snub_pair(ps[k][1], ps[k][2])])

\* some pair of the relation is no key of the dict
snub_key_error(extra_rel) ==
    LET ps == snub_pairs(extra_rel)
    IN  \E k \in 1..Len(ps) : snub_pair(ps[k][1], ps[k][2]) = <<Undef>>

\* the fields Snub.__init__ overwrites after Polyhedra.__init__
Snub_init(coxeter_diagram, init_dist, extra_relations) ==
    LET base == BasePolytope_init(coxeter_diagram, init_dist, extra_relations)
        M == base.coxeter_matrix
    IN  [base EXCEPT
            !.symmetry_gens = <<0, 1, 2, 3>>,
            !.symmetry_rels =
                <<Repeat(<<0>>, M[1][2]),
                  Repeat(<<2>>, M[2][3]),
                  Repeat(<<0, 2>>, M[1][3]),
                  <<0, 1>>,
                  <<2, 3>>>>
                \o [k \in 1..Len(extra_relations) |-> snub_rel(extra_relations[k])],
            !.rotations =
                <<[rot |-> <<0>>, order |-> M[1][2]],
                  [rot |-> <<2>>, order |-> M[2][3]],
                  [rot |-> <<0, 2>>, order |-> M[1][3]]>>]

\* Snub.transform: letter 0 is R0 then R1, every other letter R1 then R2
RECURSIVE Snub_transform(_, _)
Snub_transform(vector, word) ==
    IF word = <<>> THEN vector
    ELSE Snub_transform(
             IF Head(word) = 0
             THEN reflect(reflect(vector, 0), 1)
             ELSE reflect(reflect(vector, 1), 2),
             Tail(word))

\* Snub.get_vertices: the cosets of the trivial subgroup
Snub_get_vertices(obj, max) ==
    LET store(ct) ==
            IF ~ct.ok
            THEN Raise([obj EXCEPT !.vtable = ct.table], "Diverged")
            ELSE Return([obj EXCEPT
                     !.vtable = ct.table,
                     !.vwords = ct.words,
                     !.num_vertices = Len(ct.words),
                     !.vertices_coords =
                         [k \in 1..Len(ct.words) |->
                             Snub_transform(init_v, ct.words[k])]])
    IN  store(CosetTable(obj.symmetry_gens, obj.symmetry_rels, <<>>, FALSE, max))

\* a variant that takes an edge from every vertex word whatever the order
Snub_edges_of_all(obj, rot, order, max) ==
    Return(append_edges(obj, get_orbit(obj.vtable, obj.vwords,
                                       <<0, move(obj.vtable, 0, rot)>>)))

\* the body of the loop of Snub.get_edges for one rotation
Snub_edges_of(obj, rot, order, max) ==
    LET e0 == <<0, move(obj.vtable, 0, rot)>>
        store(coset_reps) ==
            IF ~coset_reps.ok
            THEN Raise(obj, "Diverged")
            ELSE Return(append_edges(obj, get_orbit(obj.vtable, coset_reps.words, e0)))
    IN  store(IF order = 2
              THEN get_coset_representatives(obj, <<rot>>, FALSE, max)
              ELSE [ok |-> TRUE, words |-> obj.vwords])

RECURSIVE Snub_get_edges_from(_, _, _)
Snub_get_edges_from(obj, k, max) ==
    IF k > Len(obj.rotations) THEN Return(obj)
    ELSE LET go(r) == IF r.raised # "none" THEN r
                      ELSE Snub_get_edges_from(r.obj, k + 1, max)
         IN  go(Snub_edges_of(obj, obj.rotations[k].rot, obj.rotations[k].order, max))

Snub_get_edges(obj, max) == Snub_get_edges_from(obj, 1, max)

\* the body of the loop of Snub.get_faces for one rotation of order > 2
Snub_faces_of(obj, rot, order, max) ==
    LET f0 == [k \in 1..order |-> move(obj.vtable, 0, Repeat(rot, k - 1))]
        store(coset_reps) ==
            IF ~coset_reps.ok
            THEN Raise(obj, "Diverged")
            ELSE Return(append_faces(obj, get_orbit(obj.vtable, coset_reps.words, f0)))
    IN  store(get_coset_representatives(obj, <<rot>>, FALSE, max))

\* the special triangle face (v0, v0 s, v0 rs), over all vertex words
Snub_triangles(obj) ==
    LET triangle == <<0, move(obj.vtable, 0, <<2>>), move(obj.vtable, 0, <<0, 2>>)>>
    IN  Return(append_faces(obj, get_orbit(obj.vtable, obj.vwords, triangle)))

RECURSIVE Snub_get_faces_from(_, _, _)
Snub_get_faces_from(obj, k, max) ==
    IF k > Len(obj.rotations) THEN Snub_triangles(obj)
    ELSE IF obj.rotations[k].order <= 2 THEN Snub_get_faces_from(obj, k + 1, max)
    ELSE LET go(r) == IF r.raised # "none" THEN r
                      ELSE Snub_get_faces_from(r.obj, k + 1, max)
         IN  go(Snub_faces_of(obj, obj.rotations[k].rot, obj.rotations[k].order, max))

Snub_get_faces(obj, max) == Snub_get_faces_from(obj, 1, max)

\* Snub24Cell.transform: letter 0 is R0 then R1, letter 2 R1 then R2, every
\* other letter R1 then R3
RECURSIVE Snub24Cell_transform(_, _)
Snub24Cell_transform(vector, word) ==
    IF word = <<>> THEN vector
    ELSE Snub24Cell_transform(
             IF Head(word) = 0
             THEN reflect(reflect(vector, 0), 1)
             ELSE IF Head(word) = 2
             THEN reflect(reflect(vector, 1), 2)
             ELSE reflect(reflect(vector, 1), 3),
             Tail(word))

(***************************************************************************)
(* Catalan3D: the dual of a polyhedron P, built from P's vertices_coords   *)
(* and face_indices                                                        *)
(***************************************************************************)
\* the cyclic successor of position k in a face of n vertices
Succ(k, n) == (k % n) + 1

\* contain_edge: the face f has e as a consecutive pair, in either direction
contain_edge(f, e) ==
    \E k \in 1..Len(f) :
        \/ (e[1] = f[k] /\ e[2] = f[Succ(k, Len(f))])
        \/ (e[1] = f[Succ(k, Len(f))] /\ e[2] = f[k])

\* a variant that takes a common vertex for adjacency
is_adjacent_vertex(f1, f2) ==
    \E k \in 1..Len(f1) : \E n \in 1..Len(f2) : f1[k] = f2[n]

\* is_adjacent: some consecutive pair of f1 is an edge of f2
is_adjacent(f1, f2) ==
    \E k \in 1..Len(f1) : contain_edge(f2, <<f1[k], f1[Succ(k, Len(f1))]>>)

InSeq(x, s) == \E k \in 1..Len(s) : s[k] = x

\* the dual vertex of a face: normalize(sum(verts)) / weights, kept as the
\* coordinates it is computed from
dual_vertex(verts) == [dual_of |-> verts]

\* a variant that takes one vertex per face orbit of P
Catalan3D_get_vertices_per_orbit(obj, P) ==
    Return([obj EXCEPT !.vertices_coords = @ \o
               [o \in 1..Len(P.face_indices) |-> dual_vertex(P.face_indices[o][1])]])

\* Catalan3D.get_vertices: one vertex per face of P, orbit after orbit.
\* P.vertices_coords[ind] raises IndexError past the end of the list; the
\* vertices appended before it stay.
Catalan3D_get_vertices(obj, P) ==
    LET faces == Flatten(P.face_indices)
        n == Len(P.vertices_coords)
        bad == {m \in 1..Len(faces) : \E v \in 1..Len(faces[m]) : faces[m][v] >= n}
        good == IF bad = {} THEN Len(faces)
                ELSE (CHOOSE m \in bad : \A o \in bad : m <= o) - 1
        new == [obj EXCEPT !.vertices_coords = @ \o
                   [m \in 1..good |->
                       dual_vertex([v \in 1..Len(faces[m]) |->
                                       P.vertices_coords[faces[m][v] + 1]])]]
    IN  IF bad = {} THEN Return(new) ELSE Raise(new, "IndexError")

\* a variant of the pass that keeps the first face as the current face
RECURSIVE ring_pass_from_first(_, _, _, _)
ring_pass_from_first(faces_unordered, n, face, current_face) ==
    IF n > Len(faces_unordered) THEN [face |-> face, current_face |-> current_face]
    ELSE LET ind == faces_unordered[n][1]
             f == faces_unordered[n][2]
         IN  IF ~InSeq(ind, face) /\ is_adjacent(current_face, f)
             THEN ring_pass_from_first(faces_unordered, n + 1, Append(face, ind),
                                       current_face)
             ELSE ring_pass_from_first(faces_unordered, n + 1, face, current_face)

\* one pass of the for loop over faces_unordered (entries <<ind, f>>), from
\* entry n: the ring and the current face after the pass
RECURSIVE ring_pass(_, _, _, _)
ring_pass(faces_unordered, n, face, current_face) ==
    IF n > Len(faces_unordered) THEN [face |-> face, current_face |-> current_face]
    ELSE LET ind == faces_unordered[n][1]
             f == faces_unordered[n][2]
         IN  IF ~InSeq(ind, face) /\ is_adjacent(current_face, f)
             THEN ring_pass(faces_unordered, n + 1, Append(face, ind), f)
             ELSE ring_pass(faces_unordered, n + 1, face, current_face)

\* the while loop: <<Undef>> when a pass appends nothing, so that the loop
\* never ends
RECURSIVE ring_loop(_, _, _)
ring_loop(faces_unordered, face, current_face) ==
    IF Len(face) >= Len(faces_unordered) THEN face
    ELSE LET r == ring_pass(faces_unordered, 1, face, current_face)
         IN  IF r.face = face THEN <<Undef>>
             ELSE ring_loop(faces_unordered, r.face, r.current_face)

\* the faces of P that contain the vertex k, as <<ind, f>>
faces_at(P_faces_flatten, k) ==
    LET inds == SelectSeq([m \in 1..Len(P_faces_flatten) |-> m - 1],
                          LAMBDA ind : InSeq(k, P_faces_flatten[ind + 1]))
    IN  [n \in 1..Len(inds) |-> <<inds[n], P_faces_flatten[inds[n] + 1]>>]

\* the dual face of the vertex k: <<>> stands for the IndexError of
\* faces_unordered[0], <<Undef>> for the loop that never ends
dual_face(P_faces_flatten, k) ==
    LET faces_unordered == faces_at(P_faces_flatten, k)
    IN  IF faces_unordered = <<>> THEN <<>>
        ELSE ring_loop(faces_unordered, <<faces_unordered[1][1]>>, faces_unordered[1][2])

\* Catalan3D.get_faces: one face per vertex of P, appended as one orbit
Catalan3D_get_faces(obj, P) ==
    LET P_faces_flatten == Flatten(P.face_indices)
        result == [k \in 1..Len(P.vertices_coords) |-> dual_face(P_faces_flatten, k - 1)]
        stuck == {k \in 1..Len(result) : result[k] = <<>> \/ result[k] = <<Undef>>}
        first == CHOOSE k \in stuck : \A o \in stuck : k <= o
    IN  IF stuck = {} THEN Return([obj EXCEPT !.face_indices = Append(@, result)])
        ELSE IF result[first] = <<>> THEN Raise(obj, "IndexError")
        ELSE Raise(obj, "Hang")

(***************************************************************************)
(* The builder as a state machine                                          *)
(*                                                                         *)
(* A behaviour constructs one object, Catalan3D(...Catalan3D(P)) with      *)
(* args.duals wrappers around a polytope P of class args.cls, and then     *)
(* calls build_geometry on it.  build_geometry is a sequence of method     *)
(* calls; pc names the next one.                                           *)
(***************************************************************************)
VARIABLES
    args,       \* the constructor's arguments and the coset budget
    pc,         \* "new", "wrap", "ready", the method build_geometry calls
                \* next, "raised" (constructor), "failed" or "hung" (build)
    self,       \* the fields of the polytope P
    duals,      \* the fields of the Catalan3D objects, innermost first
    layer,      \* the Catalan3D object whose methods run, 0 for P
    error,      \* the exception that ended the constructor or the build
    before,     \* P as it was when build_geometry was called
    builds      \* the number of build_geometry calls that returned

vars == <<args, pc, self, duals, layer, error, before, builds>>

\* the coset budgets of a table ("a configured maximum coset count")
SmallBudget == 8
DefaultBudget == 128

\* the number of build_geometry calls followed on one polytope
MaxBuilds == 2

Arg(cls, coxeter_diagram, init_dist, extra_relations, max, n) ==
    [cls |-> cls, coxeter_diagram |-> coxeter_diagram, init_dist |-> init_dist,
     extra_relations |-> extra_relations, max |-> max, duals |-> n]

Dist3 == {<<1, 0, 0>>, <<0, 1, 0>>, <<0, 0, 1>>, <<1, 1, 0>>,
          <<0, 1, 1>>, <<1, 0, 1>>, <<1, 1, 1>>, <<0, 0, 0>>}

PolyhedraArgs ==
    {Arg("Polyhedra", cd, id, <<>>, DefaultBudget, 0) :
        cd \in {<<3, 2, 3>>, <<4, 2, 3>>, <<2, 2, 2>>}, id \in Dist3}
    \cup {Arg("Polyhedra", <<3, 2, 5>>, <<0, 0, 1>>, <<>>, DefaultBudget, 0),
          Arg("Polyhedra", <<5, 2, 3>>, <<1, 0, 0>>, <<>>, DefaultBudget, 0)}
    \cup {Arg("Polyhedra", <<3, 2, 3>>, id, <<>>, SmallBudget, 0) :
            id \in {<<1, 0, 0>>, <<0, 1, 0>>, <<1, 1, 0>>}}
    \cup {Arg("Polyhedra", <<6, 2, 3>>, <<1, 0, 0>>, <<>>, SmallBudget, 0),
          Arg("Polyhedra", <<4, 2, 3>>, <<1, 0, 0, 0>>, <<>>, DefaultBudget, 0),
          Arg("Polyhedra", <<3, 2, 2, 3, 2, 3>>, <<1, 0, 0>>, <<>>, DefaultBudget, 0)}

SnubArgs ==
    {Arg("Snub", cd, <<1, 1, 1>>, <<>>, DefaultBudget, 0) :
        cd \in {<<4, 2, 3>>, <<3, 2, 3>>, <<2, 2, 3>>, <<2, 3, 3>>}}
    \cup {Arg("Snub", <<2, 2, 2>>, <<1, 1, 1>>, er, DefaultBudget, 0) :
            er \in {<<<<0, 1, 2>>>>, <<<<0, 2, 1, 0>>>>, <<<<2, 1, 2, 0>>>>,
                    <<<<0, 1>>, <<2, 0>>>>, <<<<1, 2, 1, 2>>, <<0>>>>}}
    \cup {Arg("Snub", <<3, 3, 3>>, <<1, 1, 1>>, <<>>, SmallBudget, 0),
          Arg("Snub", <<3, 2, 3>>, <<1, 1, 1>>, <<>>, SmallBudget, 0),
          Arg("Snub", <<4, 2, 3>>, <<1, 1>>, <<>>, DefaultBudget, 0)}

PolychoraArgs ==
    {Arg("Polychora", <<3, 2, 2, 3, 2, 3>>, <<1, 0, 0, 0>>, <<>>, DefaultBudget, 0),
     Arg("Polychora", <<2, 2, 2, 3, 2, 3>>, <<1, 1, 0, 0>>, <<>>, DefaultBudget, 0),
     Arg("Polychora", <<3, 2, 2, 3, 2, 3>>, <<1, 0, 0>>, <<>>, DefaultBudget, 0),
     Arg("Polychora", <<3, 2, 3>>, <<1, 0, 0, 0>>, <<>>, DefaultBudget, 0),
     Arg("Polychora", <<3, 2, 3>>, <<1, 0, 0>>, <<>>, DefaultBudget, 0)}

Polytope5DArgs ==
    {Arg("Polytope5D", <<3, 2, 2, 2, 3, 2, 2, 3, 2, 3>>, <<1, 0, 0, 0, 0>>, <<>>,
         DefaultBudget, 0),
     Arg("Polytope5D", <<3, 2, 2, 2, 3, 2, 2, 3, 2, 3>>, <<1, 0, 0, 0>>, <<>>,
         DefaultBudget, 0),
     Arg("Polytope5D", <<3, 2, 2, 3, 2, 3>>, <<1, 0, 0, 0, 0>>, <<>>, DefaultBudget, 0),
     Arg("Polytope5D", <<3, 2, 2, 3, 2, 3>>, <<1, 0, 0, 0>>, <<>>, DefaultBudget, 0)}

Catalan3DArgs ==
    {Arg("Polyhedra", cd[1], cd[2], <<>>, DefaultBudget, n) :
        cd \in {<<<<3, 2, 3>>, <<1, 0, 0>>>>, <<<<4, 2, 3>>, <<1, 0, 0>>>>,
                <<<<4, 2, 3>>, <<0, 0, 1>>>>, <<<<4, 2, 3>>, <<1, 1, 0>>>>,
                <<<<4, 2, 3>>, <<0, 1, 0>>>>, <<<<2, 2, 2>>, <<1, 1, 1>>>>,
                <<<<2, 2, 2>>, <<0, 1, 1>>>>, <<<<2, 2, 2>>, <<1, 0, 0>>>>},
        n \in {1, 2}}
    \cup {Arg("Snub", <<3, 2, 3>>, <<1, 1, 1>>, <<>>, DefaultBudget, 1),
          Arg("Polyhedra", <<3, 2, 3>>, <<0, 1, 0>>, <<>>, SmallBudget, 1),
          Arg("Polyhedra", <<3, 2, 3>>, <<1, 0>>, <<>>, DefaultBudget, 1)}

Args == PolyhedraArgs \cup SnubArgs \cup PolychoraArgs \cup Polytope5DArgs
            \cup Catalan3DArgs

\* the fields before the constructor has run
NoObject == BasePolytope_init(<<>>, <<>>, <<>>)

Init ==
    /\ args \in Args
    /\ pc = "new"
    /\ self = NoObject
    /\ duals = <<>>
    /\ layer = 0
    /\ error = "none"
    /\ before = NoObject
    /\ builds = 0

\* the constructor raised exc: no object
Raised(exc) == pc' = "raised" /\ error' = exc /\ UNCHANGED self

\* the constructor returned an object with the fields obj
Constructed(obj) ==
    /\ pc' = IF args.duals > 0 THEN "wrap" ELSE "ready"
    /\ self' = obj
    /\ UNCHANGED error

\* the length check of Polyhedra.__init__
Polyhedra_length_error(coxeter_diagram, init_dist) ==
    ~(Len(coxeter_diagram) = Len(init_dist) /\ Len(init_dist) = 3)

\* the length check of Polychora.__init__
Polychora_length_error(coxeter_diagram, init_dist) ==
    ~(Len(coxeter_diagram) = 6 /\ Len(init_dist) = 4)

\* the length check of Polytope5D.__init__
Polytope5D_length_error(coxeter_diagram, init_dist) ==
    Len(coxeter_diagram) # 10 /\ Len(init_dist) # 5

\* Polyhedra(coxeter_diagram, init_dist, extra_relations)
NewPolyhedra ==
    /\ pc = "new"
    /\ args.cls = "Polyhedra"
    /\ IF Polyhedra_length_error(args.coxeter_diagram, args.init_dist)
       THEN Raised("ValueError")
       ELSE Constructed(BasePolytope_init(args.coxeter_diagram, args.init_dist,
                                          args.extra_relations))
    /\ UNCHANGED <<args, duals, layer, before, builds>>

\* Snub(coxeter_diagram, init_dist, extra_relations)
NewSnub ==
    /\ pc = "new"
    /\ args.cls = "Snub"
    /\ IF Polyhedra_length_error(args.coxeter_diagram, args.init_dist)
       THEN Raised("ValueError")
       ELSE IF \E k \in 1..Len(args.extra_relations) :
                   snub_key_error(args.extra_relations[k])
       THEN Raised("KeyError")
       ELSE Constructed(Snub_init(args.coxeter_diagram, args.init_dist,
                                  args.extra_relations))
    /\ UNCHANGED <<args, duals, layer, before, builds>>

\* Polychora(coxeter_diagram, init_dist, extra_relations)
NewPolychora ==
    /\ pc = "new"
    /\ args.cls = "Polychora"
    /\ IF Polychora_length_error(args.coxeter_diagram, args.init_dist)
       THEN Raised("ValueError")
       ELSE Constructed(BasePolytope_init(args.coxeter_diagram, args.init_dist,
                                          args.extra_relations))
    /\ UNCHANGED <<args, duals, layer, before, builds>>

\* Polytope5D(coxeter_diagram, init_dist, extra_relations)
NewPolytope5D ==
    /\ pc = "new"
    /\ args.cls = "Polytope5D"
    /\ IF Polytope5D_length_error(args.coxeter_diagram, args.init_dist)
       THEN Raised("ValueError")
       ELSE Constructed(BasePolytope_init(args.coxeter_diagram, args.init_dist,
                                          args.extra_relations))
    /\ UNCHANGED <<args, duals, layer, before, builds>>

\* the fields Catalan3D.__init__ sets (self.P is the object below)
Catalan3D_init == [vertices_coords |-> <<>>, face_indices |-> <<>>]

\* Catalan3D(P), around the outermost object so far
NewCatalan3D ==
    /\ pc = "wrap"
    /\ duals' = Append(duals, Catalan3D_init)
    /\ pc' = IF Len(duals) + 1 = args.duals THEN "ready" ELSE "wrap"
    /\ UNCHANGED <<args, self, layer, error, before, builds>>

\* The numerical helpers fix what a descriptor whose two lengths disagree
\* does next, so a build is followed only for n mirrors and n distances.
Buildable == Len(self.active) = Len(self.coxeter_matrix)

\* a dual is built once, a polytope up to MaxBuilds times
BuildLimit == IF args.duals = 0 THEN MaxBuilds ELSE 1

\* where build_geometry goes after P's get_faces
AfterP == IF args.duals > 0 THEN "dual_get_vertices" ELSE "ready"

\* the effect of a call of a method of P made by build_geometry: on an
\* exception the build ends, otherwise it goes on with the next call
Step(r, next) ==
    /\ self' = r.obj
    /\ IF r.raised # "none"
       THEN pc' = "failed" /\ error' = r.raised /\ UNCHANGED <<builds, layer>>
       ELSE /\ pc' = next
            /\ UNCHANGED error
            /\ builds' = IF next = "ready" THEN builds + 1 ELSE builds
            /\ layer' = IF next = "dual_get_vertices" THEN 1 ELSE layer

\* build_geometry is called: P.get_vertices()
call_get_vertices ==
    /\ pc = "ready"
    /\ Buildable
    /\ builds < BuildLimit
    /\ before' = self
    /\ Step(IF args.cls = "Snub" THEN Snub_get_vertices(self, args.max)
                                 ELSE get_vertices(self, args.max),
            "get_edges")
    /\ UNCHANGED <<args, duals>>

\* P.get_edges()
call_get_edges ==
    /\ pc = "get_edges"
    /\ Step(IF args.cls = "Snub" THEN Snub_get_edges(self, args.max)
                                 ELSE get_edges(self, args.max),
            "get_faces")
    /\ UNCHANGED <<args, duals, before>>

\* P.get_faces()
call_get_faces ==
    /\ pc = "get_faces"
    /\ Step(IF args.cls = "Snub" THEN Snub_get_faces(self, args.max)
                                 ELSE get_faces(self, args.max),
            AfterP)
    /\ UNCHANGED <<args, duals, before>>

\* the polyhedron self.P of the Catalan3D object number k
PolyhedronOf(k) == IF k = 1 THEN self ELSE duals[k - 1]

\* Catalan3D.get_vertices() of the object number layer
call_dual_get_vertices ==
    /\ pc = "dual_get_vertices"
    /\ LET r == Catalan3D_get_vertices(duals[layer], PolyhedronOf(layer))
       IN  /\ duals' = [duals EXCEPT ![layer] = r.obj]
           /\ IF r.raised # "none"
              THEN pc' = "failed" /\ error' = r.raised
              ELSE pc' = "dual_get_faces" /\ UNCHANGED error
    /\ UNCHANGED <<args, self, layer, before, builds>>

\* Catalan3D.get_faces() of the object number layer
call_dual_get_faces ==
    /\ pc = "dual_get_faces"
    /\ LET r == Catalan3D_get_faces(duals[layer], PolyhedronOf(layer))
       IN  /\ duals' = [duals EXCEPT ![layer] = r.obj]
           /\ IF r.raised = "Hang"
              THEN pc' = "hung" /\ UNCHANGED <<error, layer, builds>>
              ELSE IF r.raised # "none"
              THEN pc' = "failed" /\ error' = r.raised /\ UNCHANGED <<layer, builds>>
              ELSE IF layer < args.duals
              THEN /\ pc' = "dual_get_vertices"
                   /\ layer' = layer + 1
                   /\ UNCHANGED <<error, builds>>
              ELSE /\ pc' = "ready"
                   /\ layer' = 0
                   /\ builds' = builds + 1
                   /\ UNCHANGED error
    /\ UNCHANGED <<args, self, before>>

Next ==
    \/ NewPolyhedra
    \/ NewSnub
    \/ NewPolychora
    \/ NewPolytope5D
    \/ NewCatalan3D
    \/ call_get_vertices
    \/ call_get_edges
    \/ call_get_faces
    \/ call_dual_get_vertices
    \/ call_dual_get_faces

Spec == Init /\ [][Next]_vars

\* the counts of the polytope P
Counts == <<self.num_vertices, self.num_edges, self.num_faces>>

(***************************************************************************)
(* Properties                                                              *)
(***************************************************************************)
\* the builders of the Wythoff construction proper
Wythoff == args.cls \in {"Polyhedra", "Polychora", "Polytope5D"}

\* build_geometry has returned (for the first time)
Built == pc = "ready" /\ builds >= 1
BuiltOnce == pc = "ready" /\ builds = 1

\* every index of every entry of every orbit is a vertex id below n
InRange(orbits, n) ==
    \A o \in 1..Len(orbits) : \A e \in 1..Len(orbits[o]) :
        \A v \in 1..Len(orbits[o][e]) : orbits[o][e][v] \in 0..(n - 1)

\* two edges are the same unordered pair
SameEdge(a, b) == {a[1], a[2]} = {b[1], b[2]}

\* two faces are the same cyclic sequence, up to rotation and reversal
SameCycle(f, g) ==
    /\ Len(f) = Len(g)
    /\ \E s \in 0..(Len(f) - 1) :
          \/ \A k \in 1..Len(f) : g[k] = f[((k - 1 + s) % Len(f)) + 1]
          \/ \A k \in 1..Len(f) : g[k] = f[((s - k) % Len(f)) + 1]

\* C1: after build_geometry on a Wythoff builder every integer stored in
\* every orbit of edge_indices and face_indices is a vertex id c with
\* 0 <= c < num_vertices.
C1_IndicesInRange ==
    (Wythoff /\ Built) =>
        /\ InRange(self.edge_indices, self.num_vertices)
        /\ InRange(self.face_indices, self.num_vertices)

C1_Witness ==
    /\ Built
    /\ args.cls = "Polytope5D"
    /\ self.num_edges > 0
    /\ self.num_faces > 0

\* C2: after build_geometry no edge orbit holds the same unordered pair of
\* vertex ids twice and no face orbit holds the same cyclic vertex sequence
\* (up to rotation and reversal) twice.
C2_NoDuplicatesInOrbit ==
    (Wythoff /\ Built) =>
        /\ \A o \in 1..Len(self.edge_indices) :
              \A a, b \in 1..Len(self.edge_indices[o]) :
                  a < b => ~SameEdge(self.edge_indices[o][a], self.edge_indices[o][b])
        /\ \A o \in 1..Len(self.face_indices) :
              \A a, b \in 1..Len(self.face_indices[o]) :
                  a < b => ~SameCycle(self.face_indices[o][a], self.face_indices[o][b])

C2_Witness ==
    /\ Built
    /\ args.cls = "Polyhedra"
    /\ \E o \in 1..Len(self.edge_indices) : Len(self.edge_indices[o]) >= 12
    /\ \E o \in 1..Len(self.face_indices) : Len(self.face_indices[o]) >= 6
    /\ \E k \in 1..Len(self.active) : ~self.active[k]

\* the first build of Polyhedra(cd, id) has returned
BuiltPolyhedra(cd, id) ==
    /\ BuiltOnce
    /\ args.cls = "Polyhedra"
    /\ args.coxeter_diagram = cd
    /\ args.init_dist = id

Euler == self.num_vertices - self.num_edges + self.num_faces = 2

\* C3: build_geometry on Polyhedra yields (V, E, F) = (4, 6, 4) for diagram
\* (3,2,3) with init_dist (1,0,0), (8, 12, 6) for (4,2,3) with (1,0,0) and
\* (24, 36, 14) for (4,2,3) with (1,1,0); each time V - E + F = 2.
C3_LiteralCounts ==
    /\ BuiltPolyhedra(<<3, 2, 3>>, <<1, 0, 0>>) => (Counts = <<4, 6, 4>> /\ Euler)
    /\ BuiltPolyhedra(<<4, 2, 3>>, <<1, 0, 0>>) => (Counts = <<8, 12, 6>> /\ Euler)
    /\ BuiltPolyhedra(<<4, 2, 3>>, <<1, 1, 0>>) => (Counts = <<24, 36, 14>> /\ Euler)

C3_Witness == BuiltPolyhedra(<<4, 2, 3>>, <<1, 1, 0>>) /\ args.duals = 0

\* C4 as stated: build_geometry on Polyhedra with diagram (3,2,5) and
\* init_dist (0,0,1), and with diagram (5,2,3) and init_dist (1,0,0), yields
\* (V, E, F) = (12, 30, 20).
C4_StatedCounts ==
    /\ BuiltPolyhedra(<<3, 2, 5>>, <<0, 0, 1>>) => Counts = <<12, 30, 20>>
    /\ BuiltPolyhedra(<<5, 2, 3>>, <<1, 0, 0>>) => Counts = <<12, 30, 20>>

\* C4: build_geometry on Polyhedra with diagram (3,2,5) and init_dist
\* (0,0,1), and equally with diagram (5,2,3) and init_dist (1,0,0), yields
\* (V, E, F) = (20, 30, 12): one vertex per coset of the order-6 stabilizer
\* generated by the two inactive mirrors, whose product has order 3.
C4_Counts ==
    /\ BuiltPolyhedra(<<3, 2, 5>>, <<0, 0, 1>>) => (Counts = <<20, 30, 12>> /\ Euler)
    /\ BuiltPolyhedra(<<5, 2, 3>>, <<1, 0, 0>>) => (Counts = <<20, 30, 12>> /\ Euler)

C4_Witness ==
    /\ BuiltPolyhedra(<<3, 2, 5>>, <<0, 0, 1>>)
    /\ Len(self.face_indices) = 1
    /\ Len(self.face_indices[1][1]) = 5

\* the first build of Snub(cd, (1,1,1)) has returned
BuiltSnub(cd) ==
    /\ BuiltOnce
    /\ args.cls = "Snub"
    /\ args.coxeter_diagram = cd
    /\ args.extra_relations = <<>>

\* the sizes of the orbits of a list of orbits
OrbitSizes(orbits) == [o \in 1..Len(orbits) |-> Len(orbits[o])]

\* C5: build_geometry on Snub with diagram (4,2,3) and init_dist (1,1,1)
\* yields (V, E, F) = (24, 60, 38): one edge orbit per rotation r, s, rs, of
\* V entries when the rotation's order is above 2 (trivial stabilizer) and
\* V / 2 when it is 2 (stabilizer <rot>); one face orbit per rotation of
\* order above 2, of V / order polygons with order vertices; and last the
\* orbit of the triangle (0, move(0,s), move(0,rs)), one per vertex word.
C5_SnubCube ==
    BuiltSnub(<<4, 2, 3>>) =>
        /\ Counts = <<24, 60, 38>>
        /\ OrbitSizes(self.edge_indices) = <<24, 24, 12>>
        /\ OrbitSizes(self.face_indices) = <<6, 8, 24>>
        /\ \A f \in 1..6 : Len(self.face_indices[1][f]) = 4
        /\ \A f \in 1..8 : Len(self.face_indices[2][f]) = 3
        /\ self.face_indices[3][1] =
               <<0, move(self.vtable, 0, <<2>>), move(self.vtable, 0, <<0, 2>>)>>
        /\ \A k \in 1..24 :
               self.face_indices[3][k] =
                   [v \in 1..3 |-> move(self.vtable, self.face_indices[3][1][v],
                                        self.vwords[k])]

C5_Witness ==
    /\ BuiltSnub(<<4, 2, 3>>)
    /\ Len(self.edge_indices) = 3
    /\ Len(self.face_indices) = 3

\* build_geometry of the outermost Catalan3D object has returned
BuiltDual == pc = "ready" /\ builds = 1 /\ args.duals >= 1

\* C6: after Catalan3D(P).build_geometry() the number of dual vertices is the
\* number of faces of P summed over P's face orbits, and the number of dual
\* faces is the number of vertices of P; for the cube they are 6 and 8.
C6_DualCounts ==
    BuiltDual =>
        /\ \A k \in 1..args.duals :
              /\ Len(duals[k].vertices_coords) = SumLen(PolyhedronOf(k).face_indices)
              /\ SumLen(duals[k].face_indices) = Len(PolyhedronOf(k).vertices_coords)
        /\ (args.cls = "Polyhedra" /\ args.coxeter_diagram = <<4, 2, 3>>
                /\ args.init_dist = <<1, 0, 0>>) =>
              /\ Len(duals[1].vertices_coords) = 6
              /\ SumLen(duals[1].face_indices) = 8

C6_Witness ==
    /\ BuiltDual
    /\ args.coxeter_diagram = <<4, 2, 3>>
    /\ args.init_dist = <<1, 0, 0>>
    /\ args.duals = 1
    /\ self.num_faces = 6

\* the faces of P, flattened across orbits
P_faces == Flatten(self.face_indices)

\* P is simple: every vertex lies on exactly three faces
Simple ==
    \A v \in 0..(self.num_vertices - 1) :
        Cardinality({m \in 1..Len(P_faces) : InSeq(v, P_faces[m])}) = 3

\* C7: Catalan3D(Catalan3D(P)) of a simple polyhedron P has as many vertices
\* as P, and its face number m is, as a cyclic sequence up to rotation and
\* reversal, the m-th face of P (faces flattened across orbits).
C7_DualOfDual ==
    (BuiltDual /\ args.duals = 2 /\ Simple) =>
        /\ Len(duals[2].vertices_coords) = self.num_vertices
        /\ SumLen(duals[2].face_indices) = Len(P_faces)
        /\ \A m \in 1..Len(P_faces) :
               SameCycle(Flatten(duals[2].face_indices)[m], P_faces[m])

C7_Witness ==
    /\ BuiltDual
    /\ args.duals = 2
    /\ Simple
    /\ Counts = <<24, 36, 14>>

\* the lengths of the diagram and of init_dist for the class's dimension
DiagramLength(cls) ==
    CASE cls = "Polyhedra" -> 3 [] cls = "Polychora" -> 6 [] cls = "Polytope5D" -> 10

DistLength(cls) ==
    CASE cls = "Polyhedra" -> 3 [] cls = "Polychora" -> 4 [] cls = "Polytope5D" -> 5

\* one of the two lengths does not match the class's dimension
LengthMismatch ==
    \/ Len(args.coxeter_diagram) # DiagramLength(args.cls)
    \/ Len(args.init_dist) # DistLength(args.cls)

\* C8: the constructor of Polyhedra, Polychora and Polytope5D raises an error
\* and builds nothing whenever one of the two input lengths does not match
\* the class's dimension.
C8_MismatchRejected ==
    (Wythoff /\ pc # "new" /\ LengthMismatch) => (pc = "raised" /\ self = NoObject)

\* the fields a builder exposes
Exposed(obj) ==
    <<obj.vtable, obj.vwords, obj.num_vertices, obj.num_edges, obj.num_faces,
      obj.vertices_coords, obj.edge_indices, obj.face_indices>>

\* C9: when a coset enumeration of build_geometry fails (Diverged), the
\* exposed fields of the builder are as they were before the call.
C9_NoPartialResults ==
    (pc = "failed" /\ error = "Diverged") => Exposed(self) = Exposed(before)

\* the table of C10 from a pair of reflection letters to rotation letters
stated_pair(x, y) ==
    CASE x = 0 /\ y = 1 -> <<0>>
      [] x = 1 /\ y = 0 -> <<1>>
      [] x = 1 /\ y = 2 -> <<2>>
      [] x = 2 /\ y = 1 -> <<3>>
      [] x = 0 /\ y = 2 -> <<0, 2>>
      [] x = 2 /\ y = 0 -> <<3, 1>>
      [] OTHER -> <<Undef>>

stated_rel(extra_rel) ==
    LET ps == snub_pairs(extra_rel)
    IN  Flatten([k \in 1..Len(ps) |-> stated_pair(ps[k][1], ps[k][2])])

\* C10: a constructed Snub holds the five standard relations followed by
\* every extra relation, doubled when its length is odd, split into adjacent
\* pairs and translated pair by pair with the table (0,1) r, (1,0) r^-1,
\* (1,2) s, (2,1) s^-1, (0,2) r s, (2,0) s^-1 r^-1.
C10_SnubTranslation ==
    (args.cls = "Snub" /\ pc \notin {"new", "raised"}) =>
        /\ Len(self.symmetry_rels) = 5 + Len(args.extra_relations)
        /\ \A k \in 1..Len(args.extra_relations) :
               self.symmetry_rels[5 + k] = stated_rel(args.extra_relations[k])

\* the ordered pair of reflections a rotation letter denotes: r = R0 R1,
\* s = R1 R2, t = R1 R3 and their inverses
letter_pair(g) ==
    CASE g = 0 -> <<0, 1>>
      [] g = 1 -> <<1, 0>>
      [] g = 2 -> <<1, 2>>
      [] g = 3 -> <<2, 1>>
      [] g = 4 -> <<1, 3>>
      [] g = 5 -> <<3, 1>>

\* the reflections of a word of rotation letters, letter after letter
stated_transform(vector, word) ==
    vector \o Flatten([k \in 1..Len(word) |-> letter_pair(word[k])])

\* the vertices of a built Snub
SnubVertices == 1..Len(self.vwords)

\* C11: in rotation mode transform applies to every letter of a word the
\* ordered pair of reflections the letter denotes (Snub: 0 (R0,R1), 1 (R1,R0),
\* 2 (R1,R2), 3 (R2,R1); Snub24Cell also 4 (R1,R3), 5 (R3,R1)), so that the
\* coordinates of every vertex of a built Snub are the image of the initial
\* point under the element its word denotes.
C11_RotationLetters ==
    (args.cls = "Snub" /\ Built) =>
        /\ \A k \in SnubVertices :
               self.vertices_coords[k] = stated_transform(init_v, self.vwords[k])
        /\ \A g \in 0..5 :
               Snub24Cell_transform(init_v, <<g>>) = stated_transform(init_v, <<g>>)

\* the order of the product of the mirrors i and j
Order(i, j) == self.coxeter_matrix[i + 1][j + 1]

IsActive(i) == self.active[i + 1]

\* the pair of mirrors pr = (i, j) generates a face
generates_face(pr) ==
    \/ IsActive(pr[1]) /\ IsActive(pr[2])
    \/ (IsActive(pr[1]) \/ IsActive(pr[2])) /\ Order(pr[1], pr[2]) > 2

\* the pairs i < j that generate a face, in the order get_faces meets them
FacePairs == SelectSeq(combinations2(self.symmetry_gens), generates_face)

\* the word (i, j) * k
Turns(i, j, k) == [n \in 1..(2 * k) |-> IF n % 2 = 1 THEN i ELSE j]

\* the base face of a generating pair: 2m vertices when both mirrors are
\* active, m when one is
stated_base_face(i, j) ==
    IF IsActive(i) /\ IsActive(j)
    THEN [n \in 1..(2 * Order(i, j)) |->
             IF n % 2 = 1 THEN move(self.vtable, 0, Turns(i, j, (n - 1) \div 2))
             ELSE move(self.vtable, 0, <<j>> \o Turns(i, j, (n - 2) \div 2))]
    ELSE [n \in 1..Order(i, j) |-> move(self.vtable, 0, Turns(i, j, n - 1))]

\* the stabilizer of the face: (i,), (j,) and every inactive mirror that
\* commutes with both
stated_face_stabilizer(i, j) ==
    LET commuting == SelectSeq(self.symmetry_gens,
                         LAMBDA k : ~IsActive(k) /\ Order(k, i) = 2 /\ Order(k, j) = 2)
    IN  <<<<i>>, <<j>>>> \o [n \in 1..Len(commuting) |-> <<commuting[n]>>]

\* the orbit of the base face of (i, j) under the coset representatives of
\* its stabilizer
stated_face_orbit(i, j) ==
    LET under(reps) ==
            [k \in 1..Len(reps) |->
                [v \in 1..Len(stated_base_face(i, j)) |->
                    move(self.vtable, stated_base_face(i, j)[v], reps[k])]]
    IN  under(CosetTable(self.symmetry_gens, self.symmetry_rels,
                         stated_face_stabilizer(i, j), TRUE, args.max).words)

\* C12: get_faces appends one face orbit for each pair i < j that generates a
\* face (both mirrors active, or one active and m > 2) and none for any other
\* pair; the orbit is that of the base face of 2m or m vertices under the
\* coset representatives of the stabilizer (i,), (j,) plus every inactive k
\* with M[k][i] = M[k][j] = 2, and num_faces counts the faces appended.
C12_FaceOrbits ==
    (Wythoff /\ BuiltOnce) =>
        /\ Len(self.face_indices) = Len(FacePairs)
        /\ \A n \in 1..Len(FacePairs) :
               self.face_indices[n] = stated_face_orbit(FacePairs[n][1], FacePairs[n][2])
        /\ self.num_faces = SumLen(self.face_indices)

C12_Witness ==
    /\ BuiltOnce
    /\ args.cls = "Polychora"
    /\ Len(FacePairs) = 1
    /\ Len(stated_face_stabilizer(FacePairs[1][1], FacePairs[1][2])) = 3
    /\ Len(self.face_indices[1][1]) = 3
    /\ \E pr \in {<<0, 2>>, <<1, 2>>} : ~generates_face(pr)

\* the consecutive pairs of a face, the last vertex followed by the first
Sides(f) == {<<f[k], f[Succ(k, Len(f))]>> : k \in 1..Len(f)}

\* the faces f and g share an undirected edge: a consecutive pair of one is
\* a consecutive pair of the other, in either direction
SharesEdge(f, g) ==
    \E a \in Sides(f) : \E b \in Sides(g) : a = b \/ a = <<b[2], b[1]>>

\* the faces of P (positions in P_faces, from 0) that contain the vertex v
FacesAround(v) == {m \in 0..(Len(P_faces) - 1) : InSeq(v, P_faces[m + 1])}

\* P is a closed polyhedron: every edge lies on exactly two faces and every
\* vertex on at least three
Closed ==
    /\ self.num_faces > 0
    /\ \A o \in 1..Len(self.edge_indices) : \A n \in 1..Len(self.edge_indices[o]) :
           Cardinality({m \in 1..Len(P_faces) :
               \E a \in Sides(P_faces[m]) : SameEdge(a, self.edge_indices[o][n])}) = 2
    /\ \A v \in 0..(self.num_vertices - 1) : Cardinality(FacesAround(v)) >= 3

\* Catalan3D(P).get_faces has been called on the dual of the polytope P
DualFacesCalled ==
    /\ args.duals >= 1
    /\ \/ pc \in {"hung", "failed"} /\ layer = 1 /\ Len(duals[1].vertices_coords) > 0
       \/ duals[1].face_indices # <<>>

\* the ring of the vertex v in the dual of P
Ring(v) == duals[1].face_indices[1][v + 1]

\* C13: for a closed polyhedron P of the Wythoff builder the ring-ordering
\* loop of Catalan3D.get_faces ends for every vertex v of P, and the dual
\* face it gives lists every face of P around v once, each entry sharing an
\* undirected edge with the entry before it.
C13_RingOrdering ==
    (Wythoff /\ Closed /\ DualFacesCalled) =>
        /\ ~(pc \in {"hung", "failed"} /\ layer = 1)
        /\ Len(duals[1].face_indices) = 1
        /\ Len(duals[1].face_indices[1]) = self.num_vertices
        /\ \A v \in 0..(self.num_vertices - 1) :
               /\ {Ring(v)[n] : n \in 1..Len(Ring(v))} = FacesAround(v)
               /\ Len(Ring(v)) = Cardinality(FacesAround(v))
               /\ \A n \in 1..(Len(Ring(v)) - 1) :
                      SharesEdge(P_faces[Ring(v)[n] + 1], P_faces[Ring(v)[n + 1] + 1])

C13_Witness ==
    /\ Wythoff
    /\ Closed
    /\ DualFacesCalled
    /\ duals[1].face_indices # <<>>
    /\ \E v \in 0..(self.num_vertices - 1) : Cardinality(FacesAround(v)) = 4
    /\ \E v \in 0..(self.num_vertices - 1) :
           ~SharesEdge(P_faces[Ring(v)[1] + 1], P_faces[Ring(v)[3] + 1])

\* an object of a builder class exists
IsConstructed == pc \notin {"new", "raised"}

\* len(vwords), 0 while vwords is None
NumWords(obj) == IF obj.vwords = None THEN 0 ELSE Len(obj.vwords)

\* the list s is its first Len(s) / k entries k times over
Repeated(s, k) ==
    /\ Len(s) % k = 0
    /\ \A n \in 1..Len(s) : s[n] = s[((n - 1) % (Len(s) \div k)) + 1]

\* C14: in every state of a constructed polytope num_vertices = len(vwords),
\* num_edges and num_faces are the sums of the lengths of the orbits of
\* edge_indices and face_indices; before the first build_geometry call the
\* three are 0, vtable is None and the arrays are empty; get_edges and
\* get_faces append without resetting, so after the k-th successful call
\* num_vertices is as after the call before and num_edges and num_faces are
\* k times their value after the first call, the lists holding the orbits of
\* the first call k times over.
C14_Counters ==
    IsConstructed =>
        /\ self.num_vertices = NumWords(self)
        /\ self.num_edges = SumLen(self.edge_indices)
        /\ self.num_faces = SumLen(self.face_indices)
        /\ (pc = "ready" /\ builds = 0) =>
               /\ Counts = <<0, 0, 0>>
               /\ self.vtable = None
               /\ self.vwords = None
               /\ self.vertices_coords = <<>>
               /\ self.edge_indices = <<>>
               /\ self.face_indices = <<>>
        /\ (pc = "ready" /\ builds >= 1) =>
               /\ Repeated(self.edge_indices, builds)
               /\ Repeated(self.face_indices, builds)
               /\ self.num_edges =
                      builds * SumLen(SubSeq(self.edge_indices, 1,
                                             Len(self.edge_indices) \div builds))
               /\ self.num_faces =
                      builds * SumLen(SubSeq(self.face_indices, 1,
                                             Len(self.face_indices) \div builds))
        /\ (pc = "ready" /\ builds >= 2) =>
               /\ self.num_vertices = before.num_vertices
               /\ self.vwords = before.vwords
               /\ (builds - 1) * self.num_edges = builds * before.num_edges
               /\ (builds - 1) * self.num_faces = builds * before.num_faces

C14_Witness ==
    /\ pc = "ready"
    /\ builds = 2
    /\ Counts = <<24, 72, 28>>
    /\ before.num_edges = 36
    /\ Len(self.edge_indices) = 4

====
